---- MODULE Spec2Model ----
(***************************************************************************)
(* Text layout of azul (src/text_layout.rs): word splitting, the word      *)
(* cache, the two-pass overflow estimate, left-aligned glyph positioning   *)
(* and horizontal / vertical alignment.                                    *)
(*                                                                         *)
(* Lengths are f32 pixels in the source.  Here every length is an integer  *)
(* number of half pixels (UnitsPerPixel units per pixel), so that the      *)
(* factor 0.5 of centred alignment and ascent / 2 stay exact.  Rounding of *)
(* f32 arithmetic is not modelled.                                         *)
(***************************************************************************)
EXTENDS Integers, Sequences, FiniteSets, TLC

VARIABLES
    pc,                 \* position inside get_glyphs / get_words_cached
    overflow_checks,    \* build profile: TRUE panics on usize overflow, FALSE wraps
    text,               \* get_glyphs: the (uncached) text, a sequence of characters
    target_font_id,     \* get_glyphs: the font
    target_font_size,   \* get_glyphs: font size in px
    words,              \* get_glyphs: Words of the text
    rect_dimensions,    \* get_glyphs: bounds.size
    overflow,           \* get_glyphs: LayoutOverflow
    scrollbar_info,     \* get_glyphs: ScrollbarInfo
    overflow_pass_1,    \* get_glyphs: TextOverflowPass1
    new_size,           \* get_glyphs: size returned by estimate_overflow_pass_2
    overflow_pass_2,    \* get_glyphs: TextOverflowPass2
    left_aligned,       \* get_glyphs: what words_to_left_aligned_glyphs returned
    positioned_glyphs,  \* get_glyphs: the glyphs, mutated in place by steps (9)-(11)
    horiz_alignment,    \* get_glyphs: TextAlignmentHorz
    vert_alignment,     \* get_glyphs: TextAlignmentVert
    origin,             \* get_glyphs: bounds.origin
    text_cache,         \* TextCache: string_cache and cached_strings
    call,               \* get_words_cached: arguments of the last call
    ret                 \* get_words_cached: outcome of the last call

layout_vars == <<text, target_font_id, target_font_size, words, rect_dimensions, overflow,
                 scrollbar_info, overflow_pass_1, new_size, overflow_pass_2,
                 left_aligned, positioned_glyphs, horiz_alignment,
                 vert_alignment, origin>>
cache_vars == <<text_cache, call, ret>>
vars == <<pc, overflow_checks, layout_vars, cache_vars>>

----------------------------------------------------------------------------
(* Bounds of the model *)

MaxLen == 4          \* longest text laid out
MaxFontSize == 2     \* the word cache holds font sizes 1 .. MaxFontSize px
MaxLayoutFontSize == 1  \* get_glyphs is called with font sizes 1 .. MaxLayoutFontSize px
MaxRectWidth == 4    \* rectangle widths are 0 .. MaxRectWidth px
MaxRectHeight == 2   \* rectangle heights are 0, 2 .. 2 * MaxRectHeight px
MaxScrollbar == 1    \* scrollbar widths are 0 .. MaxScrollbar px
MaxOrigin == 1       \* rectangle origins are (0,0) .. (MaxOrigin, MaxOrigin) px

UnitsPerPixel == 2   \* lengths are counted in half pixels (Center => 0.5)
USIZE_MAX == 2147483647  \* stands for usize::MAX, what 0usize - 1 wraps to

\* Option<T>: a sequence of at most one element
None == <<>>
Some(v) == <<v>>
IsSome(o) == o # <<>>
Unwrap(o) == o[1]

Chars == {"a", "b", " ", "\t", "\n"}
FontIds == {"f1", "f2"}
FontSizes == 1 .. MaxFontSize

RECURSIVE SeqsUpTo(_, _)
SeqsUpTo(S, n) ==
    IF n = 0 THEN {<<>>}
    ELSE LET shorter == SeqsUpTo(S, n - 1)
         IN  shorter \cup {Append(s, c) : s \in {t \in shorter : Len(t) = n - 1}, c \in S}

Texts == SeqsUpTo(Chars, MaxLen)

----------------------------------------------------------------------------
(* The font engine (rusttype), for two test fonts.  All values are linear  *)
(* in the scale, as in rusttype; the constant factor RUSTTYPE_SIZE_HACK *  *)
(* PX_TO_PT of the scale is part of the tables' unit.                      *)

\* font.glyph(c).id()
GlyphIdOf(c) == CASE c = "a" -> 1 [] c = "b" -> 2 [] c = " " -> 3 [] OTHER -> 0

\* extents.max.x - extents.min.x of a glyph, times scale_for_1_pixel, at 1 px
GlyphWidthAt1(font_id, id) ==
    CASE id = 1 -> 1
      [] id = 2 -> IF font_id = "f1" THEN 2 ELSE 3
      [] OTHER -> 1

\* font.pair_kerning at 1 px
KerningAt1(font_id, last, id) ==
    IF last = 1 /\ id = 2 THEN 1
    ELSE IF last = 2 /\ id = 2 /\ font_id = "f2" THEN 1
    ELSE 0

HorizAdvance(font_id, id, font_size) ==
    GlyphWidthAt1(font_id, id) * font_size * UnitsPerPixel

PairKerning(font_id, font_size, last, id) ==
    KerningAt1(font_id, last, id) * font_size * UnitsPerPixel

----------------------------------------------------------------------------
(* split_text_into_words *)

WordItem(glyphs, total_width) ==
    [kind |-> "Word", glyphs |-> glyphs, total_width |-> total_width]
TabItem == [kind |-> "Tab"]
ReturnItem == [kind |-> "Return"]

GlyphInstance(index, x, y) == [index |-> index, x |-> x, y |-> y]

\* the locals of split_text_into_words before the loop
SplitStart ==
    [words |-> <<>>, word_caret |-> 0, cur_word_length |-> 0,
     chars_in_this_word |-> <<>>, glyphs_in_this_word |-> <<>>,
     last_glyph |-> None]

\* a plausible slip: the word length is not reset at the end of a word
EndWordKeepsLength(st) ==
    [st EXCEPT !.words = Append(@, WordItem(st.glyphs_in_this_word, st.cur_word_length)),
               !.glyphs_in_this_word = <<>>,
               !.last_glyph = None,
               !.word_caret = 0]

\* end_word: chars_in_this_word is not among its arguments and stays as it is
EndWord(st) ==
    [st EXCEPT !.words = Append(@, WordItem(st.glyphs_in_this_word, st.cur_word_length)),
               !.glyphs_in_this_word = <<>>,
               !.last_glyph = None,
               !.word_caret = 0,
               !.cur_word_length = 0]

FlushWord(st) == IF st.chars_in_this_word # <<>> THEN EndWord(st) ELSE st

\* one iteration of the loop over text.nfc()
SplitChar(st, cur_char, font_id, font_size) ==
    CASE cur_char = "\t" ->
            [FlushWord(st) EXCEPT !.words = Append(@, TabItem)]
      [] cur_char = "\n" ->
            [FlushWord(st) EXCEPT !.words = Append(@, ReturnItem)]
      [] cur_char = " " ->
            FlushWord(st)
      [] OTHER ->
            LET id == GlyphIdOf(cur_char)
                horiz_advance == HorizAdvance(font_id, id, font_size)
                kerned == IF IsSome(st.last_glyph)
                          THEN st.word_caret + PairKerning(font_id, font_size, Unwrap(st.last_glyph), id)
                          ELSE st.word_caret
                word_caret_saved == kerned
            IN  [st EXCEPT !.last_glyph = Some(id),
                           !.word_caret = kerned + horiz_advance,
                           !.cur_word_length = @ + horiz_advance,
                           !.glyphs_in_this_word = Append(@, GlyphInstance(id, word_caret_saved, 0)),
                           !.chars_in_this_word = Append(@, cur_char)]

RECURSIVE SplitLoop(_, _, _, _, _)
SplitLoop(st, t, i, font_id, font_size) ==
    IF i > Len(t) THEN st
    ELSE SplitLoop(SplitChar(st, t[i], font_id, font_size), t, i + 1, font_id, font_size)

\* The characters of the model are ASCII, which NFC leaves as they are.
split_text_into_words(t, font_id, font_size) ==
    FlushWord(SplitLoop(SplitStart, t, 1, font_id, font_size)).words

----------------------------------------------------------------------------
(* calculate_font_metrics *)

\* font.v_metrics at 1 px: ascent, descent (negative) and line gap
AscentAt1 == 2
DescentAt1 == 0 - 1
LineGapAt1 == 0

\* line_height is None (<<>>) or Some(multiplier)
calculate_font_metrics(font_id, font_size, line_height) ==
    LET lh == IF IsSome(line_height) THEN Unwrap(line_height) ELSE 1
        with_line_height == font_size * lh * UnitsPerPixel
        no_line_height == font_size
        space_width == HorizAdvance(font_id, GlyphIdOf(" "), no_line_height)
        ascent == AscentAt1 * with_line_height
        descent == DescentAt1 * with_line_height
        line_gap == LineGapAt1 * with_line_height
    IN  [space_width |-> space_width,
         tab_width |-> 4 * space_width,
         vertical_advance |-> ascent - descent + line_gap,
         offset_top |-> ascent \div 2,
         font_size_no_line_height |-> no_line_height]

----------------------------------------------------------------------------
(* estimate_overflow_pass_1 and estimate_overflow_pass_2 *)

IsOverflowing(amount) == [kind |-> "IsOverflowing", amount |-> amount]
InBounds(amount) == [kind |-> "InBounds", amount |-> amount]
is_overflowing(o) == o.kind = "IsOverflowing"

Max(a, b) == IF a > b THEN a ELSE b

CountReturns(ws) == Cardinality({i \in DOMAIN ws : ws[i].kind = "Return"})

\* the loop of lines 516-534 from item i on; st = [max_line_cursor, cur_line_cursor, cur_line]
RECURSIVE WrapLoop(_, _, _, _, _)
WrapLoop(st, ws, i, width, fm) ==
    IF i > Len(ws) THEN st
    ELSE LET w == ws[i]
             next ==
               CASE w.kind = "Word" ->
                      LET wrapped ==
                            IF st.cur_line_cursor + w.total_width > width
                            THEN [max_line_cursor |-> Max(st.max_line_cursor, st.cur_line_cursor),
                                  cur_line_cursor |-> 0,
                                  cur_line |-> st.cur_line + 1]
                            ELSE st
                      IN  [wrapped EXCEPT !.cur_line_cursor = @ + w.total_width + fm.space_width]
                 [] w.kind = "Tab" ->
                      [st EXCEPT !.cur_line_cursor = @ + fm.tab_width]
                 [] OTHER ->
                      [max_line_cursor |-> Max(st.max_line_cursor, st.cur_line_cursor),
                       cur_line_cursor |-> 0,
                       cur_line |-> st.cur_line + 1]
         IN  WrapLoop(next, ws, i + 1, width, fm)

\* the loop of lines 557-566 from item i on; st = [cur_line_cursor, max_line_cursor]
RECURSIVE UnwrappedLoop(_, _, _, _)
UnwrappedLoop(st, ws, i, fm) ==
    IF i > Len(ws) THEN st
    ELSE LET w == ws[i]
             next ==
               CASE w.kind = "Word" ->
                      [st EXCEPT !.cur_line_cursor = @ + w.total_width]
                 [] w.kind = "Tab" ->
                      [st EXCEPT !.cur_line_cursor = @ + fm.tab_width]
                 [] OTHER ->
                      [max_line_cursor |-> Max(st.max_line_cursor, st.cur_line_cursor),
                       cur_line_cursor |-> 0]
         IN  UnwrappedLoop(next, ws, i + 1, fm)

Compare(length, dimension) ==
    IF length > dimension THEN IsOverflowing(length - dimension)
    ELSE InBounds(dimension - length)

estimate_overflow_pass_1(ws, rect, fm, ov) ==
    LET wrap == WrapLoop([max_line_cursor |-> 0, cur_line_cursor |-> 0, cur_line |-> 0],
                         ws, 1, rect.width, fm)
        max_hor_len == IF ov.allows_horizontal_overflow THEN None
                       ELSE Some(wrap.cur_line_cursor)
        vertical_length ==
            IF ov.allows_horizontal_overflow
            THEN CountReturns(ws) * fm.vertical_advance
            ELSE (wrap.cur_line * fm.vertical_advance) + fm.offset_top
        horz_max ==
            IF ov.allows_horizontal_overflow
            THEN UnwrappedLoop([cur_line_cursor |-> 0, max_line_cursor |-> 0],
                               ws, 1, fm).max_line_cursor
            ELSE Unwrap(max_hor_len)
    IN  [horizontal |-> Compare(horz_max, rect.width),
         vertical |-> Compare(vertical_length, rect.height)]

\* a plausible slip: the two scrollbar adjustments applied to the wrong sides
estimate_overflow_pass_2_swapped(ws, rect, fm, ov, sb, pass1) ==
    LET shrunk == [width  |-> IF is_overflowing(pass1.horizontal)
                              THEN rect.width - sb.width ELSE rect.width,
                   height |-> IF is_overflowing(pass1.vertical)
                              THEN rect.height - sb.width ELSE rect.height]
        recalc == IF is_overflowing(pass1.horizontal) \/ is_overflowing(pass1.vertical)
                  THEN estimate_overflow_pass_1(ws, shrunk, fm, ov)
                  ELSE pass1
    IN  [new_size |-> shrunk, pass2 |-> recalc]

estimate_overflow_pass_2(ws, rect, fm, ov, sb, pass1) ==
    LET shrunk == [width  |-> IF is_overflowing(pass1.vertical)
                              THEN rect.width - sb.width ELSE rect.width,
                   height |-> IF is_overflowing(pass1.horizontal)
                              THEN rect.height - sb.width ELSE rect.height]
        recalc == IF is_overflowing(pass1.horizontal) \/ is_overflowing(pass1.vertical)
                  THEN estimate_overflow_pass_1(ws, shrunk, fm, ov)
                  ELSE pass1
    IN  [new_size |-> shrunk, pass2 |-> recalc]

----------------------------------------------------------------------------
(* words_to_left_aligned_glyphs *)

\* WordCaretMax::SomeMaxWidth(s - word_caret) or WordCaretMax::NoMaxWidth(word_caret)
SpaceUntilHorzReturn(max_horizontal_width, word_caret) ==
    IF IsSome(max_horizontal_width)
    THEN [kind |-> "SomeMaxWidth", value |-> Unwrap(max_horizontal_width) - word_caret]
    ELSE [kind |-> "NoMaxWidth", value |-> word_caret]

\* line_break_offsets.push((left_aligned_glyphs.len() - 1, ..)) and the reset of
\* the caret (lines 701-710, 730-739): len() - 1 on an empty vector panics with
\* overflow checks and wraps to usize::MAX without them
CommitLine(st, max_horizontal_width, checks) ==
    IF Len(st.glyphs) = 0 /\ checks
    THEN [st EXCEPT !.status = "panic"]
    ELSE [st EXCEPT
            !.line_break_offsets =
                Append(@, [glyph_index |-> IF Len(st.glyphs) = 0 THEN USIZE_MAX
                                           ELSE Len(st.glyphs) - 1,
                           space |-> SpaceUntilHorzReturn(max_horizontal_width, st.word_caret)]),
            !.max_word_caret = Max(@, st.word_caret),
            !.word_caret = 0,
            !.current_line_num = @ + 1]

\* lines 713-720: the glyphs of one word, moved to the caret and the line
PlaceGlyphs(glyphs, push_x, push_y) ==
    [i \in 1 .. Len(glyphs) |->
        GlyphInstance(glyphs[i].index, glyphs[i].x + push_x, glyphs[i].y + push_y)]

\* a plausible slip: a word that ends exactly at the maximum width is wrapped
PositionItemWrapsAtEdge(st, word, max_horizontal_width, fm, checks) ==
    CASE word.kind = "Word" ->
            LET text_overflows_rect ==
                    IF IsSome(max_horizontal_width)
                    THEN st.word_caret + word.total_width >= Unwrap(max_horizontal_width)
                    ELSE FALSE
                broken == IF text_overflows_rect
                          THEN CommitLine(st, max_horizontal_width, checks)
                          ELSE st
                push_y == (broken.current_line_num * fm.vertical_advance) + fm.offset_top
            IN  IF broken.status = "panic" THEN broken
                ELSE [broken EXCEPT
                        !.glyphs = @ \o PlaceGlyphs(word.glyphs, broken.word_caret, push_y),
                        !.word_caret = @ + word.total_width + fm.space_width]
      [] word.kind = "Tab" ->
            [st EXCEPT !.word_caret = @ + fm.tab_width]
      [] OTHER ->
            CommitLine(st, max_horizontal_width, checks)

\* one iteration of the loop of lines 689-742
PositionItem(st, word, max_horizontal_width, fm, checks) ==
    CASE word.kind = "Word" ->
            LET text_overflows_rect ==
                    IF IsSome(max_horizontal_width)
                    THEN st.word_caret + word.total_width > Unwrap(max_horizontal_width)
                    ELSE FALSE
                broken == IF text_overflows_rect
                          THEN CommitLine(st, max_horizontal_width, checks)
                          ELSE st
                push_y == (broken.current_line_num * fm.vertical_advance) + fm.offset_top
            IN  IF broken.status = "panic" THEN broken
                ELSE [broken EXCEPT
                        !.glyphs = @ \o PlaceGlyphs(word.glyphs, broken.word_caret, push_y),
                        !.word_caret = @ + word.total_width + fm.space_width]
      [] word.kind = "Tab" ->
            [st EXCEPT !.word_caret = @ + fm.tab_width]
      [] OTHER ->
            CommitLine(st, max_horizontal_width, checks)

RECURSIVE PositionLoop(_, _, _, _, _, _)
PositionLoop(st, ws, i, max_horizontal_width, fm, checks) ==
    IF i > Len(ws) \/ st.status = "panic" THEN st
    ELSE PositionLoop(PositionItem(st, ws[i], max_horizontal_width, fm, checks),
                      ws, i + 1, max_horizontal_width, fm, checks)

\* a plausible slip: the record of the last line holds the number of glyphs
LastLineLength(st, max_horizontal_width) ==
    IF st.status # "panic" /\ Len(st.glyphs) > 0
    THEN [st EXCEPT
            !.line_break_offsets =
                Append(@, [glyph_index |-> Len(st.glyphs),
                           space |-> SpaceUntilHorzReturn(max_horizontal_width, st.word_caret)]),
            !.max_word_caret = Max(@, st.word_caret)]
    ELSE st

\* a plausible slip: the pen of the last line is left out of the maximum
LastLineNotMeasured(st, max_horizontal_width) ==
    IF st.status # "panic" /\ Len(st.glyphs) > 0
    THEN [st EXCEPT
            !.line_break_offsets =
                Append(@, [glyph_index |-> Len(st.glyphs) - 1,
                           space |-> SpaceUntilHorzReturn(max_horizontal_width, st.word_caret)])]
    ELSE st

\* lines 744-754: the record of the last line
LastLine(st, max_horizontal_width) ==
    IF st.status # "panic" /\ Len(st.glyphs) > 0
    THEN [st EXCEPT
            !.line_break_offsets =
                Append(@, [glyph_index |-> Len(st.glyphs) - 1,
                           space |-> SpaceUntilHorzReturn(max_horizontal_width, st.word_caret)]),
            !.max_word_caret = Max(@, st.word_caret)]
    ELSE st

\* lines 759-765
ResolveSpace(space_r, max_word_caret) ==
    IF space_r.kind = "SomeMaxWidth" THEN space_r.value
    ELSE max_word_caret - space_r.value

words_to_left_aligned_glyphs(ws, max_horizontal_width, fm, checks) ==
    LET st == LastLine(
                 PositionLoop([status |-> "ok", glyphs |-> <<>>, line_break_offsets |-> <<>>,
                               word_caret |-> 0, current_line_num |-> 0,
                               max_word_caret |-> 0],
                              ws, 1, max_horizontal_width, fm, checks),
                 max_horizontal_width)
    IN  [status |-> st.status,
         glyphs |-> st.glyphs,
         line_breaks |->
            [i \in 1 .. Len(st.line_break_offsets) |->
                [glyph_index |-> st.line_break_offsets[i].glyph_index,
                 space |-> ResolveSpace(st.line_break_offsets[i].space, st.max_word_caret)]],
         min_width |-> st.max_word_caret,
         min_height |-> (st.current_line_num * fm.vertical_advance) + fm.offset_top]

----------------------------------------------------------------------------
(* align_text_horz, align_text_vert, add_origin *)

\* assert!(glyphs.len() - 1 == line_breaks[line_breaks.len() - 1].0): TRUE when
\* the assertion passes, FALSE when it, an overflow check or the index panics
LastBreakAssertion(glyphs, line_breaks, checks) ==
    /\ ~(Len(glyphs) = 0 /\ checks)
    /\ Len(line_breaks) > 0
    /\ (IF Len(glyphs) = 0 THEN USIZE_MAX ELSE Len(glyphs) - 1)
          = line_breaks[Len(line_breaks)].glyph_index

\* multiply_factor, in halves: Center => 0.5, Right / Bottom => 1.0
FactorHalves(alignment) == IF alignment = "Center" THEN 1 ELSE 2

\* the loop of lines 836-843 from glyph i on (glyph_idx = i - 1);
\* st = [status, glyphs, current_line_num]
RECURSIVE HorzLoop(_, _, _, _)
HorzLoop(st, i, line_breaks, halves) ==
    IF i > Len(st.glyphs) \/ st.status = "panic" THEN st
    ELSE LET glyph_idx == i - 1
             line == IF glyph_idx > line_breaks[st.current_line_num + 1].glyph_index
                     THEN st.current_line_num + 1
                     ELSE st.current_line_num
         IN  IF line + 1 > Len(line_breaks)
             THEN [st EXCEPT !.status = "panic"]
             ELSE LET space_added_full == line_breaks[line + 1].space
                  IN  HorzLoop([st EXCEPT !.current_line_num = line,
                                          !.glyphs[i].x = @ + (space_added_full * halves) \div 2],
                               i + 1, line_breaks, halves)

align_text_horz(alignment, glyphs, line_breaks, checks) ==
    IF Len(line_breaks) = 0 THEN [status |-> "ok", glyphs |-> glyphs]
    ELSE IF ~LastBreakAssertion(glyphs, line_breaks, checks)
    THEN [status |-> "panic", glyphs |-> glyphs]
    ELSE IF alignment = "Left" THEN [status |-> "ok", glyphs |-> glyphs]
    ELSE LET st == HorzLoop([status |-> "ok", glyphs |-> glyphs, current_line_num |-> 0],
                            1, line_breaks, FactorHalves(alignment))
         IN  [status |-> st.status, glyphs |-> st.glyphs]

\* a plausible slip: the slack is added without looking at the kind of the result
align_text_vert_any_amount(alignment, glyphs, line_breaks, pass2, checks) ==
    IF ~LastBreakAssertion(glyphs, line_breaks, checks)
    THEN [status |-> "panic", glyphs |-> glyphs]
    ELSE IF alignment = "Top"
    THEN [status |-> "ok", glyphs |-> glyphs]
    ELSE LET space_to_add == (pass2.vertical.amount * FactorHalves(alignment)) \div 2
         IN  [status |-> "ok",
              glyphs |-> [i \in 1 .. Len(glyphs) |->
                            [glyphs[i] EXCEPT !.y = @ + space_to_add]]]

align_text_vert(alignment, glyphs, line_breaks, pass2, checks) ==
    IF ~LastBreakAssertion(glyphs, line_breaks, checks)
    THEN [status |-> "panic", glyphs |-> glyphs]
    ELSE IF alignment = "Top" \/ is_overflowing(pass2.vertical)
    THEN [status |-> "ok", glyphs |-> glyphs]
    ELSE LET space_to_add == (pass2.vertical.amount * FactorHalves(alignment)) \div 2
         IN  [status |-> "ok",
              glyphs |-> [i \in 1 .. Len(glyphs) |->
                            [glyphs[i] EXCEPT !.y = @ + space_to_add]]]

\* a plausible slip: the horizontal offset added to both coordinates
add_origin_x_twice(glyphs, x, y) ==
    [i \in 1 .. Len(glyphs) |-> [glyphs[i] EXCEPT !.x = @ + x, !.y = @ + x]]

add_origin(glyphs, x, y) ==
    [i \in 1 .. Len(glyphs) |-> [glyphs[i] EXCEPT !.x = @ + x, !.y = @ + y]]

----------------------------------------------------------------------------
(* get_glyphs, one action per step of the pipeline.  A step draws the       *)
(* arguments of get_glyphs that it is the first to read.                    *)

Unset == "unset"

LayoutFont == "f1"

RectSizes ==
    {[width |-> w * UnitsPerPixel, height |-> (h + h) * UnitsPerPixel] :
        w \in 0 .. MaxRectWidth, h \in 0 .. MaxRectHeight}
LayoutOverflows == {[allows_horizontal_overflow |-> b] : b \in BOOLEAN}
ScrollbarInfos == {[width |-> w * UnitsPerPixel] : w \in 0 .. MaxScrollbar}
Origins == {[x |-> k * UnitsPerPixel, y |-> (k + k) * UnitsPerPixel] : k \in 0 .. MaxOrigin}

font_metrics == calculate_font_metrics(target_font_id, target_font_size, None)

InitLayout ==
    /\ pc = "split"
    /\ overflow_checks \in BOOLEAN
    /\ text \in Texts
    /\ target_font_id = LayoutFont
    /\ target_font_size \in 1 .. MaxLayoutFontSize
    /\ words = Unset
    /\ rect_dimensions = Unset
    /\ overflow = Unset
    /\ scrollbar_info = Unset
    /\ overflow_pass_1 = Unset
    /\ new_size = Unset
    /\ overflow_pass_2 = Unset
    /\ left_aligned = Unset
    /\ positioned_glyphs = Unset
    /\ horiz_alignment = Unset
    /\ vert_alignment = Unset
    /\ origin = Unset
    /\ text_cache = Unset
    /\ call = Unset
    /\ ret = Unset

\* (1) TextInfo::Uncached
SplitText ==
    /\ pc = "split"
    /\ words' = split_text_into_words(text, target_font_id, font_metrics.font_size_no_line_height)
    /\ pc' = "pass1"
    /\ UNCHANGED <<overflow_checks, text, target_font_id, target_font_size, rect_dimensions, overflow,
                   scrollbar_info, overflow_pass_1, new_size, overflow_pass_2,
                   left_aligned, positioned_glyphs, horiz_alignment, vert_alignment,
                   origin, cache_vars>>

\* (3)
OverflowPass1 ==
    /\ pc = "pass1"
    /\ \E size \in RectSizes, ov \in LayoutOverflows :
          /\ rect_dimensions' = size
          /\ overflow' = ov
          /\ overflow_pass_1' = estimate_overflow_pass_1(words, size, font_metrics, ov)
    /\ pc' = "pass2"
    /\ UNCHANGED <<overflow_checks, text, target_font_id, target_font_size, words, scrollbar_info,
                   new_size, overflow_pass_2, left_aligned, positioned_glyphs,
                   horiz_alignment, vert_alignment, origin, cache_vars>>

\* (4)
OverflowPass2 ==
    /\ pc = "pass2"
    /\ \E sb \in ScrollbarInfos :
          LET r == estimate_overflow_pass_2(words, rect_dimensions, font_metrics,
                                            overflow, sb, overflow_pass_1)
          IN  /\ scrollbar_info' = sb
              /\ new_size' = r.new_size
              /\ overflow_pass_2' = r.pass2
    /\ pc' = "left_align"
    /\ UNCHANGED <<overflow_checks, text, target_font_id, target_font_size, words, rect_dimensions,
                   overflow, overflow_pass_1, left_aligned, positioned_glyphs,
                   horiz_alignment, vert_alignment, origin, cache_vars>>

\* (5); steps (6)-(8) do nothing
LeftAlign ==
    /\ pc = "left_align"
    /\ LET max_horizontal_text_width ==
               IF overflow.allows_horizontal_overflow THEN None ELSE Some(new_size.width)
           r == words_to_left_aligned_glyphs(words, max_horizontal_text_width,
                                             font_metrics, overflow_checks)
       IN  /\ left_aligned' = r
           /\ positioned_glyphs' = r.glyphs
           /\ pc' = IF r.status = "panic" THEN "panic" ELSE "align_horz"
    /\ UNCHANGED <<overflow_checks, text, target_font_id, target_font_size, words, rect_dimensions,
                   overflow, scrollbar_info, overflow_pass_1, new_size, overflow_pass_2,
                   horiz_alignment, vert_alignment, origin, cache_vars>>

\* (9)
AlignHorz ==
    /\ pc = "align_horz"
    /\ \E alignment \in {"Left", "Center", "Right"} :
          LET r == align_text_horz(alignment, positioned_glyphs, left_aligned.line_breaks,
                                   overflow_checks)
          IN  /\ horiz_alignment' = alignment
              /\ positioned_glyphs' = r.glyphs
              /\ pc' = IF r.status = "panic" THEN "panic" ELSE "align_vert"
    /\ UNCHANGED <<overflow_checks, text, target_font_id, target_font_size, words, rect_dimensions,
                   overflow, scrollbar_info, overflow_pass_1, new_size, overflow_pass_2,
                   left_aligned, vert_alignment, origin, cache_vars>>

\* (10)
AlignVert ==
    /\ pc = "align_vert"
    /\ \E alignment \in {"Top", "Center", "Bottom"} :
          LET r == align_text_vert(alignment, positioned_glyphs, left_aligned.line_breaks,
                                   overflow_pass_2, overflow_checks)
          IN  /\ vert_alignment' = alignment
              /\ positioned_glyphs' = r.glyphs
              /\ pc' = IF r.status = "panic" THEN "panic" ELSE "add_origin"
    /\ UNCHANGED <<overflow_checks, text, target_font_id, target_font_size, words, rect_dimensions,
                   overflow, scrollbar_info, overflow_pass_1, new_size, overflow_pass_2,
                   left_aligned, horiz_alignment, origin, cache_vars>>

\* (11)
AddOrigin ==
    /\ pc = "add_origin"
    /\ \E o \in Origins :
          /\ origin' = o
          /\ positioned_glyphs' = add_origin(positioned_glyphs, o.x, o.y)
    /\ pc' = "done"
    /\ UNCHANGED <<overflow_checks, text, target_font_id, target_font_size, words, rect_dimensions,
                   overflow, scrollbar_info, overflow_pass_1, new_size, overflow_pass_2,
                   left_aligned, horiz_alignment, vert_alignment, cache_vars>>

NextLayout ==
    \/ SplitText
    \/ OverflowPass1
    \/ OverflowPass2
    \/ LeftAlign
    \/ AlignHorz
    \/ AlignVert
    \/ AddOrigin

Spec == InitLayout /\ [][NextLayout]_vars

\* steps (1)-(4) alone: the overflow estimate, which no build profile changes
InitOverflow == InitLayout /\ overflow_checks = TRUE

NextOverflow ==
    \/ SplitText
    \/ OverflowPass1
    \/ OverflowPass2

SpecOverflow == InitOverflow /\ [][NextOverflow]_vars

\* step (5) alone, entered as get_glyphs enters it: for every size that pass 2
\* can return, with the result of pass 2 for that size (lines 619-623), under
\* both overflow policies and in both build profiles
\* the height takes no part in step (5): the smallest and the largest are kept
PositionSizes == {size \in RectSizes : size.height \in {0, (MaxRectHeight + MaxRectHeight) * UnitsPerPixel}}

InitPosition ==
    /\ pc = "left_align"
    /\ overflow_checks \in BOOLEAN
    /\ text \in Texts
    /\ target_font_id = LayoutFont
    /\ target_font_size \in 1 .. MaxLayoutFontSize
    /\ words = split_text_into_words(text, target_font_id, font_metrics.font_size_no_line_height)
    /\ rect_dimensions = Unset
    /\ overflow \in LayoutOverflows
    /\ scrollbar_info = Unset
    /\ overflow_pass_1 = Unset
    /\ new_size \in PositionSizes
    /\ overflow_pass_2 = estimate_overflow_pass_1(words, new_size, font_metrics, overflow)
    /\ left_aligned = Unset
    /\ positioned_glyphs = Unset
    /\ horiz_alignment = Unset
    /\ vert_alignment = Unset
    /\ origin = Unset
    /\ text_cache = Unset
    /\ call = Unset
    /\ ret = Unset

NextPosition == LeftAlign

SpecPosition == InitPosition /\ [][NextPosition]_vars

\* split_text_into_words alone, for every font and font size
InitSplit ==
    /\ pc = "split"
    /\ overflow_checks = TRUE
    /\ text \in Texts
    /\ target_font_id \in FontIds
    /\ target_font_size \in FontSizes
    /\ words = Unset
    /\ rect_dimensions = Unset
    /\ overflow = Unset
    /\ scrollbar_info = Unset
    /\ overflow_pass_1 = Unset
    /\ new_size = Unset
    /\ overflow_pass_2 = Unset
    /\ left_aligned = Unset
    /\ positioned_glyphs = Unset
    /\ horiz_alignment = Unset
    /\ vert_alignment = Unset
    /\ origin = Unset
    /\ text_cache = Unset
    /\ call = Unset
    /\ ret = Unset

NextSplit == SplitText

SpecSplit == InitSplit /\ [][NextSplit]_vars

\* steps (10) and (11) alone, entered as get_glyphs enters them for text laid out
\* with Left alignment and horizontal overflow permitted, for every vertical
\* result of pass 2 up to the height bound
VerticalResults ==
    {InBounds(k * UnitsPerPixel) : k \in 0 .. MaxRectHeight}
        \cup {IsOverflowing(k * UnitsPerPixel) : k \in 1 .. MaxRectHeight}

InitAlign ==
    /\ pc = "align_vert"
    /\ overflow_checks = TRUE
    /\ text \in Texts
    /\ target_font_id = LayoutFont
    /\ target_font_size \in 1 .. MaxLayoutFontSize
    /\ words = split_text_into_words(text, target_font_id, font_metrics.font_size_no_line_height)
    /\ rect_dimensions = Unset
    /\ overflow = [allows_horizontal_overflow |-> TRUE]
    /\ scrollbar_info = Unset
    /\ overflow_pass_1 = Unset
    /\ new_size = Unset
    /\ \E v \in VerticalResults :
          overflow_pass_2 = [horizontal |-> InBounds(0), vertical |-> v]
    /\ left_aligned = words_to_left_aligned_glyphs(words, None, font_metrics, overflow_checks)
    /\ left_aligned.status = "ok"
    /\ positioned_glyphs = left_aligned.glyphs
    /\ horiz_alignment = "Left"
    /\ vert_alignment = Unset
    /\ origin = Unset
    /\ text_cache = Unset
    /\ call = Unset
    /\ ret = Unset

\* add_origin applied a second time, with the negated offset
AddOriginInverse ==
    /\ pc = "done"
    /\ positioned_glyphs' = add_origin(positioned_glyphs, 0 - origin.x, 0 - origin.y)
    /\ pc' = "restored"
    /\ UNCHANGED <<overflow_checks, text, target_font_id, target_font_size, words, rect_dimensions,
                   overflow, scrollbar_info, overflow_pass_1, new_size, overflow_pass_2,
                   left_aligned, horiz_alignment, vert_alignment, origin, cache_vars>>

NextAlign ==
    \/ AlignVert
    \/ AddOrigin
    \/ AddOriginInverse

SpecAlign == InitAlign /\ [][NextAlign]_vars

----------------------------------------------------------------------------
(* get_words_cached and scale_words *)

TextIds == {"t1", "t2"}

\* text_cache.string_cache
StoredStrings ==
    [t \in TextIds |-> IF t = "t1" THEN <<"a", "b", " ", "b">>
                       ELSE <<"b", "b", "\t", "a", "\n">>]

EmptyMap == [k \in {} |-> k]

\* map.insert(key, value)
MapInsert(map, key, value) ==
    [k \in DOMAIN map \cup {key} |-> IF k = key THEN value ELSE map[k]]

\* a plausible slip: the glyphs are scaled, the width of the word is not
scale_words_glyphs_only(ws, new_px, old_px) ==
    [i \in 1 .. Len(ws) |->
        IF ws[i].kind = "Word"
        THEN [ws[i] EXCEPT
                !.glyphs = [j \in 1 .. Len(ws[i].glyphs) |->
                              [ws[i].glyphs[j] EXCEPT !.x = (@ * new_px) \div old_px]]]
        ELSE ws[i]]

\* scale_words with scale_factor = new_px / old_px
scale_words(ws, new_px, old_px) ==
    [i \in 1 .. Len(ws) |->
        IF ws[i].kind = "Word"
        THEN [ws[i] EXCEPT
                !.glyphs = [j \in 1 .. Len(ws[i].glyphs) |->
                              [ws[i].glyphs[j] EXCEPT !.x = (@ * new_px) \div old_px]],
                !.total_width = (@ * new_px) \div old_px]
        ELSE ws[i]]

\* a plausible slip: the scaled words replace the font's size map
InsertScaledAlone(cached_strings, text_id, font_id, font_size, words_cloned) ==
    [cached_strings EXCEPT ![text_id][font_id] = MapInsert(EmptyMap, font_size, words_cloned)]

\* line 330
InsertScaled(cached_strings, text_id, font_id, font_size, words_cloned) ==
    [cached_strings EXCEPT ![text_id][font_id] = MapInsert(@, font_size, words_cloned)]

\* lines 293-315: the cache after the match, whether the words are to be scaled,
\* whether split_text_into_words ran and whether string_cache[text_id] panicked
LookUp(cache, text_id, font_id, font_size) ==
    IF text_id \notin DOMAIN cache.cached_strings
    THEN [cached_strings |-> cache.cached_strings, should_words_be_scaled |-> FALSE,
          split |-> FALSE, panic |-> FALSE]
    ELSE LET font_hash_map ==
                 IF font_id \in DOMAIN cache.cached_strings[text_id]
                 THEN cache.cached_strings[text_id]
                 ELSE MapInsert(cache.cached_strings[text_id], font_id, EmptyMap)
             font_size_map == font_hash_map[font_id]
             is_new_font == DOMAIN font_size_map = {}
             with_font == [cache.cached_strings EXCEPT ![text_id] = font_hash_map]
         IN  IF font_size \in DOMAIN font_size_map
             THEN [cached_strings |-> with_font, should_words_be_scaled |-> FALSE,
                   split |-> FALSE, panic |-> FALSE]
             ELSE IF ~is_new_font
             THEN [cached_strings |-> with_font, should_words_be_scaled |-> TRUE,
                   split |-> FALSE, panic |-> FALSE]
             ELSE IF text_id \notin DOMAIN cache.string_cache
             THEN [cached_strings |-> with_font, should_words_be_scaled |-> FALSE,
                   split |-> FALSE, panic |-> TRUE]
             ELSE [cached_strings |->
                      [with_font EXCEPT ![text_id][font_id] =
                          MapInsert(@, font_size,
                                    split_text_into_words(cache.string_cache[text_id],
                                                          font_id, font_size))],
                   should_words_be_scaled |-> FALSE,
                   split |-> TRUE, panic |-> FALSE]

\* line 333: the three unwraps
Fetch(cached_strings, text_id, font_id, font_size) ==
    IF /\ text_id \in DOMAIN cached_strings
       /\ font_id \in DOMAIN cached_strings[text_id]
       /\ font_size \in DOMAIN cached_strings[text_id][font_id]
    THEN [status |-> "ok", words |-> cached_strings[text_id][font_id][font_size]]
    ELSE [status |-> "panic", words |-> <<>>]

\* The outcomes of get_words_cached: iter().next() of a hash map may give any of
\* its entries.  run names what produced the words: "split", "scaled" or "none".
get_words_cached(cache, text_id, font_id, font_size) ==
    LET looked == LookUp(cache, text_id, font_id, font_size)
    IN  IF looked.panic
        THEN {[cached_strings |-> looked.cached_strings, status |-> "panic",
               words |-> <<>>, run |-> "none"]}
        ELSE IF looked.should_words_be_scaled
        THEN {LET next_words_for_font == looked.cached_strings[text_id][font_id][old_font_size]
                  words_cloned == scale_words(next_words_for_font, font_size, old_font_size)
                  inserted == InsertScaled(looked.cached_strings, text_id, font_id,
                                           font_size, words_cloned)
                  got == Fetch(inserted, text_id, font_id, font_size)
              IN  [cached_strings |-> inserted, status |-> got.status,
                   words |-> got.words, run |-> "scaled"] :
              old_font_size \in DOMAIN looked.cached_strings[text_id][font_id]}
        ELSE {LET got == Fetch(looked.cached_strings, text_id, font_id, font_size)
              IN  [cached_strings |-> looked.cached_strings, status |-> got.status,
                   words |-> got.words,
                   run |-> IF looked.split THEN "split" ELSE "none"]}

\* A text cache holds the stored strings; cached_strings has a (still empty) font
\* map for some of the text ids and no entry for the others.
InitCache ==
    /\ pc = "cache"
    /\ overflow_checks = TRUE
    /\ text = Unset
    /\ target_font_id = Unset
    /\ target_font_size = Unset
    /\ words = Unset
    /\ rect_dimensions = Unset
    /\ overflow = Unset
    /\ scrollbar_info = Unset
    /\ overflow_pass_1 = Unset
    /\ new_size = Unset
    /\ overflow_pass_2 = Unset
    /\ left_aligned = Unset
    /\ positioned_glyphs = Unset
    /\ horiz_alignment = Unset
    /\ vert_alignment = Unset
    /\ origin = Unset
    /\ \E known \in SUBSET TextIds :
          text_cache = [string_cache |-> StoredStrings,
                        cached_strings |-> [t \in known |-> EmptyMap]]
    /\ call = [text_id |-> "t1", font_id |-> "f1", font_size |-> 0]
    /\ ret = [status |-> "none", words |-> <<>>, run |-> "none"]

\* TextInfo::Cached
GetWordsCached ==
    /\ pc = "cache"
    /\ \E text_id \in TextIds, font_id \in FontIds, font_size \in FontSizes :
          \E r \in get_words_cached(text_cache, text_id, font_id, font_size) :
             /\ call' = [text_id |-> text_id, font_id |-> font_id, font_size |-> font_size]
             /\ text_cache' = [text_cache EXCEPT !.cached_strings = r.cached_strings]
             /\ ret' = [status |-> r.status, words |-> r.words, run |-> r.run]
    /\ UNCHANGED <<pc, overflow_checks, layout_vars>>

NextCache == GetWordsCached

SpecCache == InitCache /\ [][NextCache]_vars

----------------------------------------------------------------------------
(* Properties of split_text_into_words *)

SplitDone == pc \notin {"split", "cache"}

WordIndices == {i \in DOMAIN words : words[i].kind = "Word"}

\* C1: split_text_into_words never emits a Word item with zero glyphs.
C1_NoEmptyWord ==
    SplitDone => \A i \in WordIndices : Len(words[i].glyphs) > 0

RECURSIVE SumAdvances(_, _, _)
SumAdvances(glyphs, font_id, font_size) ==
    IF glyphs = <<>> THEN 0
    ELSE HorizAdvance(font_id, glyphs[1].index, font_size)
         + SumAdvances(Tail(glyphs), font_id, font_size)

RECURSIVE SumKerning(_, _, _)
SumKerning(glyphs, font_id, font_size) ==
    IF Len(glyphs) < 2 THEN 0
    ELSE PairKerning(font_id, font_size, glyphs[1].index, glyphs[2].index)
         + SumKerning(Tail(glyphs), font_id, font_size)

\* C9, as claimed: the total_width of every Word is the sum of the advances of
\* its glyphs plus the kerning between each pair of adjacent glyphs of the word.
C9_WidthWithKerning ==
    SplitDone =>
        \A i \in WordIndices :
            words[i].total_width =
                SumAdvances(words[i].glyphs, target_font_id, target_font_size)
                + SumKerning(words[i].glyphs, target_font_id, target_font_size)

\* C9, amended: the total_width of every Word is the sum of the advances of its
\* glyphs; the kerning between its glyphs is not part of it.
C9_WidthIsSumOfAdvances ==
    SplitDone =>
        \A i \in WordIndices :
            words[i].total_width =
                SumAdvances(words[i].glyphs, target_font_id, target_font_size)

\* a second Word whose glyphs are kerned has been produced
C9_Witness ==
    /\ SplitDone
    /\ \E i \in WordIndices :
          /\ i > 1
          /\ \E j \in WordIndices : j < i /\ words[j].glyphs # <<>>
          /\ SumKerning(words[i].glyphs, target_font_id, target_font_size) # 0

----------------------------------------------------------------------------
(* Properties of the overflow estimate *)

Pass1Done == pc \notin {"split", "pass1", "cache"}
Pass2Done == Pass1Done /\ pc # "pass2"

OnePixel == UnitsPerPixel

\* C2: for a single Word of width w, pass 1 gives horizontal = InBounds(0) in a
\* rectangle of width w and IsOverflowing(1) in one of width w - 1.
C2_SingleWordBoundary ==
    (Pass1Done /\ Len(words) = 1 /\ words[1].kind = "Word") =>
        /\ rect_dimensions.width = words[1].total_width
              => overflow_pass_1.horizontal = InBounds(0)
        /\ rect_dimensions.width = words[1].total_width - OnePixel
              => overflow_pass_1.horizontal = IsOverflowing(OnePixel)

\* the width of all items on one line, each Word followed by a space
RECURSIVE LineWidth(_, _)
LineWidth(ws, fm) ==
    IF ws = <<>> THEN 0
    ELSE (CASE ws[1].kind = "Word" -> ws[1].total_width + fm.space_width
            [] ws[1].kind = "Tab" -> fm.tab_width
            [] OTHER -> 0)
         + LineWidth(Tail(ws), fm)

\* C4: without horizontal overflow, words without a Return that fit on one line
\* have the vertical extent 1 x vertical_advance + offset_top.
C4_SingleLineVerticalExtent ==
    (/\ Pass1Done
     /\ ~overflow.allows_horizontal_overflow
     /\ \E i \in WordIndices : words[i].glyphs # <<>>
     /\ \A i \in DOMAIN words : words[i].kind # "Return"
     /\ LineWidth(words, font_metrics) <= rect_dimensions.width) =>
        LET extent == font_metrics.vertical_advance + font_metrics.offset_top
        IN  overflow_pass_1.vertical =
                IF extent > rect_dimensions.height
                THEN IsOverflowing(extent - rect_dimensions.height)
                ELSE InBounds(rect_dimensions.height - extent)

\* C5: pass 2 takes the scrollbar off the height when pass 1 overflows
\* horizontally and off the width when it overflows vertically; it returns pass 1's
\* result for the original size if neither does, and pass 1 of the shrunk size
\* otherwise.
C5_Pass2 ==
    Pass2Done =>
        LET h == is_overflowing(overflow_pass_1.horizontal)
            v == is_overflowing(overflow_pass_1.vertical)
        IN  /\ new_size.height = rect_dimensions.height - (IF h THEN scrollbar_info.width ELSE 0)
            /\ new_size.width = rect_dimensions.width - (IF v THEN scrollbar_info.width ELSE 0)
            /\ (~h /\ ~v) => /\ new_size = rect_dimensions
                             /\ overflow_pass_2 = overflow_pass_1
            /\ (h \/ v) => overflow_pass_2 =
                              estimate_overflow_pass_1(words, new_size, font_metrics, overflow)

\* pass 2 shrank the height only, and its result differs from pass 1's
C5_Witness ==
    /\ Pass2Done
    /\ is_overflowing(overflow_pass_1.horizontal)
    /\ ~is_overflowing(overflow_pass_1.vertical)
    /\ scrollbar_info.width > 0
    /\ overflow_pass_2 # overflow_pass_1

----------------------------------------------------------------------------
(* Properties of get_glyphs *)

\* C3: a text without glyphs (empty, or spaces and tabs only) never makes
\* get_glyphs panic, whatever the alignment.
C3_NoGlyphsNoPanic ==
    (SplitDone /\ \A i \in DOMAIN words : words[i].kind = "Tab") => pc # "panic"

\* the line a glyph was placed on by words_to_left_aligned_glyphs
LineOf(glyph) == (glyph.y - font_metrics.offset_top) \div font_metrics.vertical_advance

\* C10: Center and Right alignment shift every glyph by 0.5 resp. 1.0 times the
\* leftover space of the line the glyph was placed on.
C10_ShiftByLineLeftover ==
    (pc = "align_vert" /\ horiz_alignment \in {"Center", "Right"}) =>
        \A i \in DOMAIN positioned_glyphs :
            LET placed == left_aligned.glyphs[i]
                leftover == left_aligned.line_breaks[LineOf(placed) + 1].space
            IN  positioned_glyphs[i].x =
                    placed.x + (leftover * FactorHalves(horiz_alignment)) \div 2

----------------------------------------------------------------------------
(* Properties of get_words_cached *)

Entries(cached_strings) ==
    {<<t, f, s>> \in TextIds \X FontIds \X FontSizes :
        /\ t \in DOMAIN cached_strings
        /\ f \in DOMAIN cached_strings[t]
        /\ s \in DOMAIN cached_strings[t][f]}

WordsAt(cached_strings, k) == cached_strings[k[1]][k[2]][k[3]]

CalledKey == <<call.text_id, call.font_id, call.font_size>>

\* C6: a call of get_words_cached keeps every entry with its value, and a call
\* for a key that has an entry leaves the cache as it is.
C6_EntriesKept ==
    [][/\ \A k \in Entries(text_cache.cached_strings) :
             /\ k \in Entries(text_cache'.cached_strings)
             /\ WordsAt(text_cache'.cached_strings, k) = WordsAt(text_cache.cached_strings, k)
       /\ CalledKey' \in Entries(text_cache.cached_strings) => text_cache' = text_cache]_vars

\* a scaled entry was added while both texts and both fonts had entries, and
\* every key has its entry
C6_Witness ==
    /\ pc = "cache"
    /\ ret.run = "scaled"
    /\ Entries(text_cache.cached_strings) = TextIds \X FontIds \X FontSizes

HasNoWords(cached_strings, t, f) ==
    \A s \in FontSizes : <<t, f, s>> \notin Entries(cached_strings)

\* C7: for a stored text and a font without Words for it, get_words_cached
\* splits the text, inserts the Words under the key and returns them.
C7_NewFontIsSplit ==
    [][(/\ call'.text_id \in DOMAIN text_cache.string_cache
        /\ HasNoWords(text_cache.cached_strings, call'.text_id, call'.font_id)) =>
          /\ ret'.status = "ok"
          /\ ret'.words = split_text_into_words(text_cache.string_cache[call'.text_id],
                                                call'.font_id, call'.font_size)
          /\ CalledKey' \in Entries(text_cache'.cached_strings)
          /\ WordsAt(text_cache'.cached_strings, CalledKey') = ret'.words]_vars

\* to is from with every glyph x and every total_width multiplied by new_px / old_px
IsScaledCopy(to, from, new_px, old_px) ==
    /\ Len(to) = Len(from)
    /\ \A i \in DOMAIN from :
          /\ to[i].kind = from[i].kind
          /\ from[i].kind = "Word" =>
                /\ to[i].total_width * old_px = from[i].total_width * new_px
                /\ Len(to[i].glyphs) = Len(from[i].glyphs)
                /\ \A j \in DOMAIN from[i].glyphs :
                      /\ to[i].glyphs[j].index = from[i].glyphs[j].index
                      /\ to[i].glyphs[j].y = from[i].glyphs[j].y
                      /\ to[i].glyphs[j].x * old_px = from[i].glyphs[j].x * new_px

\* C8: a call for a (text id, font id) that has entries, but none at the
\* requested size, inserts a scaled copy of one of them and does not split.
C8_ScaledFromExisting ==
    [][(/\ ~HasNoWords(text_cache.cached_strings, call'.text_id, call'.font_id)
        /\ CalledKey' \notin Entries(text_cache.cached_strings)) =>
          /\ ret'.run = "scaled"
          /\ ret'.status = "ok"
          /\ CalledKey' \in Entries(text_cache'.cached_strings)
          /\ ret'.words = WordsAt(text_cache'.cached_strings, CalledKey')
          /\ \E old_px \in FontSizes :
                /\ <<call'.text_id, call'.font_id, old_px>> \in Entries(text_cache.cached_strings)
                /\ IsScaledCopy(ret'.words,
                                text_cache.cached_strings[call'.text_id][call'.font_id][old_px],
                                call'.font_size, old_px)]_vars

\* words with a Tab and a Word of several glyphs were scaled to a smaller size
C8_Witness ==
    /\ pc = "cache"
    /\ ret.run = "scaled"
    /\ ret.status = "ok"
    /\ call.font_size = 1
    /\ \E i \in DOMAIN ret.words : ret.words[i].kind = "Tab"
    /\ \E i \in DOMAIN ret.words :
          /\ ret.words[i].kind = "Word"
          /\ Len(ret.words[i].glyphs) > 1

----------------------------------------------------------------------------
(* Properties of align_text_vert and add_origin *)

\* C11: align_text_vert with Center or Bottom and a vertical result InBounds(slack)
\* adds slack x factor (0.5 for Center, 1.0 for Bottom) to the y of every glyph
\* and leaves every x unchanged; with Top, or with an overflowing vertical result,
\* it leaves every glyph position unchanged.
C11_VertShift ==
    [][(AlignVert /\ pc' = "add_origin") =>
          LET shift == IF vert_alignment' \in {"Center", "Bottom"}
                          /\ ~is_overflowing(overflow_pass_2.vertical)
                       THEN (overflow_pass_2.vertical.amount
                                * (IF vert_alignment' = "Center" THEN 1 ELSE 2)) \div 2
                       ELSE 0
          IN  /\ Len(positioned_glyphs') = Len(positioned_glyphs)
              /\ \A i \in DOMAIN positioned_glyphs :
                    /\ positioned_glyphs'[i].index = positioned_glyphs[i].index
                    /\ positioned_glyphs'[i].x = positioned_glyphs[i].x
                    /\ positioned_glyphs'[i].y = positioned_glyphs[i].y + shift]_vars

\* Center moved glyphs down by half of a positive slack
C11_Witness ==
    /\ pc = "add_origin"
    /\ vert_alignment = "Center"
    /\ overflow_pass_2.vertical = InBounds(UnitsPerPixel)
    /\ positioned_glyphs # <<>>
    /\ positioned_glyphs # left_aligned.glyphs
    /\ \A i \in DOMAIN positioned_glyphs :
          positioned_glyphs[i].y = left_aligned.glyphs[i].y + 1

\* the glyphs as steps (9) and (10) leave them
GlyphsBeforeOrigin ==
    align_text_vert(vert_alignment,
                    align_text_horz(horiz_alignment, left_aligned.glyphs,
                                    left_aligned.line_breaks, overflow_checks).glyphs,
                    left_aligned.line_breaks, overflow_pass_2, overflow_checks).glyphs

\* C12: add_origin adds exactly (x, y) to the position of every glyph and keeps
\* the ids, the order and the number of the glyphs; add_origin with (x, y) and then
\* with (-x, -y) gives every glyph its original position back.
C12_AddOrigin ==
    /\ pc = "done" =>
          /\ Len(positioned_glyphs) = Len(GlyphsBeforeOrigin)
          /\ \A i \in DOMAIN positioned_glyphs :
                positioned_glyphs[i] =
                    GlyphInstance(GlyphsBeforeOrigin[i].index,
                                  GlyphsBeforeOrigin[i].x + origin.x,
                                  GlyphsBeforeOrigin[i].y + origin.y)
    /\ pc = "restored" => positioned_glyphs = GlyphsBeforeOrigin

\* glyphs were moved by a non-zero offset and moved back
C12_Witness ==
    /\ pc = "restored"
    /\ origin.x > 0
    /\ origin.y > origin.x
    /\ Len(positioned_glyphs) > 1
    /\ positioned_glyphs = GlyphsBeforeOrigin

----------------------------------------------------------------------------
(* Properties of words_to_left_aligned_glyphs *)

Positioned == pc = "align_horz"

\* C13: whenever words_to_left_aligned_glyphs emits at least one glyph, the glyph
\* index of its last line-break record is the index of the last glyph, so the
\* assertion of align_text_horz and align_text_vert passes on its output.
C13_LastBreakIsLastGlyph ==
    (Positioned /\ left_aligned.glyphs # <<>>) =>
        /\ left_aligned.line_breaks # <<>>
        /\ left_aligned.line_breaks[Len(left_aligned.line_breaks)].glyph_index
              = Len(left_aligned.glyphs) - 1
        /\ LastBreakAssertion(left_aligned.glyphs, left_aligned.line_breaks, overflow_checks)

\* glyphs on several lines, wrapped at a maximum width
C13_Witness ==
    /\ Positioned
    /\ ~overflow.allows_horizontal_overflow
    /\ Len(left_aligned.glyphs) > 2
    /\ Len(left_aligned.line_breaks) > 2
    /\ \A i \in DOMAIN words : words[i].kind # "Return"

\* the glyphs that words_to_left_aligned_glyphs placed on line k (0-based)
GlyphsOnLine(k) == {i \in DOMAIN left_aligned.glyphs : LineOf(left_aligned.glyphs[i]) = k}

\* C16: every line-break record holds a valid index into the returned glyphs,
\* the index of the last glyph placed on the line of the record.
C16_BreakAtLastGlyphOfLine ==
    Positioned =>
        \A k \in DOMAIN left_aligned.line_breaks :
            LET glyph_index == left_aligned.line_breaks[k].glyph_index
            IN  /\ glyph_index \in 0 .. Len(left_aligned.glyphs) - 1
                /\ glyph_index + 1 \in GlyphsOnLine(k - 1)
                /\ \A i \in GlyphsOnLine(k - 1) : i <= glyph_index + 1

\* the pen at each Return from item i on, followed by the pen at the end of the words
RECURSIVE PensFrom(_, _, _, _)
PensFrom(ws, i, pen, fm) ==
    IF i > Len(ws) THEN <<pen>>
    ELSE CASE ws[i].kind = "Word" ->
                PensFrom(ws, i + 1, pen + ws[i].total_width + fm.space_width, fm)
           [] ws[i].kind = "Tab" ->
                PensFrom(ws, i + 1, pen + fm.tab_width, fm)
           [] OTHER ->
                <<pen>> \o PensFrom(ws, i + 1, 0, fm)

\* the pens of the committed lines: the last line is committed if a glyph was emitted
CommittedPens ==
    LET pens == PensFrom(words, 1, 0, font_metrics)
    IN  IF left_aligned.glyphs # <<>> THEN pens ELSE SubSeq(pens, 1, Len(pens) - 1)

RECURSIVE MaxOf(_)
MaxOf(pens) == IF pens = <<>> THEN 0 ELSE Max(pens[1], MaxOf(Tail(pens)))

\* C17: without a max width the leftover of every line-break record is M minus
\* the pen at which the line was committed, M being the greatest pen of the
\* committed lines, the last line included; every leftover is >= 0, one of the
\* returned lines has the leftover 0, and min_width is M.
C17_LeftoverFromWidestLine ==
    (Positioned /\ overflow.allows_horizontal_overflow) =>
        LET M == MaxOf(CommittedPens)
        IN  /\ Len(left_aligned.line_breaks) = Len(CommittedPens)
            /\ \A k \in DOMAIN left_aligned.line_breaks :
                  /\ left_aligned.line_breaks[k].space = M - CommittedPens[k]
                  /\ left_aligned.line_breaks[k].space >= 0
            /\ left_aligned.line_breaks # <<>> =>
                  \E k \in DOMAIN left_aligned.line_breaks :
                      left_aligned.line_breaks[k].space = 0
            /\ left_aligned.min_width = M

\* three lines of different widths, the widest neither the first nor the last
C17_Witness ==
    /\ Positioned
    /\ overflow.allows_horizontal_overflow
    /\ Len(left_aligned.line_breaks) = 3
    /\ left_aligned.line_breaks[2].space = 0
    /\ left_aligned.line_breaks[1].space > 0
    /\ left_aligned.line_breaks[3].space > left_aligned.line_breaks[1].space

----------------------------------------------------------------------------
(* Properties of the horizontal extent and of pass 2 *)

\* the width of each line of the words without wrapping: a line ends at each
\* Return and at the end of the words
RECURSIVE LineWidthsFrom(_, _, _, _)
LineWidthsFrom(ws, i, width, fm) ==
    IF i > Len(ws) THEN <<width>>
    ELSE CASE ws[i].kind = "Word" -> LineWidthsFrom(ws, i + 1, width + ws[i].total_width, fm)
           [] ws[i].kind = "Tab" -> LineWidthsFrom(ws, i + 1, width + fm.tab_width, fm)
           [] OTHER -> <<width>> \o LineWidthsFrom(ws, i + 1, 0, fm)

\* C14: with horizontal overflow permitted, pass 1 compares the greatest line
\* width over all lines, the last line included, against the width of the
\* rectangle.
C14_TrueMaxLineWidth ==
    (Pass1Done /\ overflow.allows_horizontal_overflow) =>
        overflow_pass_1.horizontal =
            Compare(MaxOf(LineWidthsFrom(words, 1, 0, font_metrics)), rect_dimensions.width)

\* C15: with horizontal overflow not permitted, pass 1 compares the greatest line
\* cursor over all lines of the wrapping simulation, the last line included,
\* against the width of the rectangle.
C15_MaxLineCursor ==
    (Pass1Done /\ ~overflow.allows_horizontal_overflow) =>
        LET wrap == WrapLoop([max_line_cursor |-> 0, cur_line_cursor |-> 0, cur_line |-> 0],
                             words, 1, rect_dimensions.width, font_metrics)
        IN  overflow_pass_1.horizontal =
                Compare(Max(wrap.max_line_cursor, wrap.cur_line_cursor), rect_dimensions.width)

\* C18: a final vertical result that is overflowing comes with a width reduced
\* by the scrollbar, a final horizontal result that is overflowing with a height
\* reduced by the scrollbar.
C18_RoomForScrollbars ==
    Pass2Done =>
        /\ is_overflowing(overflow_pass_2.vertical)
              => new_size.width = rect_dimensions.width - scrollbar_info.width
        /\ is_overflowing(overflow_pass_2.horizontal)
              => new_size.height = rect_dimensions.height - scrollbar_info.width

----------------------------------------------------------------------------
(* The overflow estimate against the positioner *)

\* the line index at which words_to_left_aligned_glyphs ended
FinalLine == (left_aligned.min_height - font_metrics.offset_top) \div font_metrics.vertical_advance

\* C19: with horizontal overflow not permitted, the estimate behind the final
\* overflow result counts as many line advances for the width returned by pass 2
\* as the positioner makes, so the estimated vertical extent is min_height.
C19_EstimateMatchesPositioner ==
    (Positioned /\ ~overflow.allows_horizontal_overflow) =>
        LET wrap == WrapLoop([max_line_cursor |-> 0, cur_line_cursor |-> 0, cur_line |-> 0],
                             words, 1, new_size.width, font_metrics)
        IN  /\ wrap.cur_line = FinalLine
            /\ left_aligned.min_height
                  = (FinalLine * font_metrics.vertical_advance) + font_metrics.offset_top
            /\ overflow_pass_2.vertical = Compare(left_aligned.min_height, new_size.height)

\* a text wrapped onto two lines, in a rectangle high enough for it
C19_Witness ==
    /\ Positioned
    /\ ~overflow.allows_horizontal_overflow
    /\ FinalLine = 1
    /\ Len(left_aligned.glyphs) > 1
    /\ \A i \in DOMAIN words : words[i].kind # "Return"
    /\ ~is_overflowing(overflow_pass_2.vertical)
====
